---- MODULE Spec2Model ----
(***************************************************************************)
(* PokeSearch backend (backend/main.py): the users and searches tables,    *)
(* the request handlers as interleaved coroutines (one step per await),    *)
(* the price aggregator and the staleness computation of /api/saved.       *)
(*                                                                         *)
(* Time is counted in ticks; TicksPerDay ticks make a day.  Money is       *)
(* counted in cents, so that round(x, 2) is rounding to a whole number.    *)
(***************************************************************************)
EXTENDS Integers, Sequences, FiniteSets, TLC

VARIABLES
    users,      \* the users table: a set of rows
    searches,   \* the searches table: a set of rows
    clock,      \* datetime.utcnow(), in ticks
    req,        \* the requests in flight: slot -> handler frame
    started,    \* number of requests received so far
    items,      \* aggregator input: the listings the marketplace returned
    google,     \* aggregator input: what google_image_search returns
    ddg,        \* aggregator input: what duckduckgo_image returns
    agg         \* aggregator output: <<>> before the call, <<result>> after

vars == <<users, searches, clock, req, started, items, google, ddg, agg>>

(***************************************************************************)
(* Bounds of the model.                                                    *)
(***************************************************************************)
MaxItems == 4       \* longest marketplace answer explored by SpecAgg
MaxStarted == 3     \* requests received in one behaviour of Spec
MaxClock == 1       \* last tick of the clock in Spec
MaxSavedDays == 8   \* days of clock explored by SpecSaved
TicksPerDay == 2    \* resolution of the clock

(***************************************************************************)
(* Program constants.                                                      *)
(***************************************************************************)
SEARCH_LIMIT_PER_GRADE == 3
SAVED_SEARCH_EXPIRY_DAYS == 7

\* Python's None / SQL NULL for a string-valued field, and the empty string:
\* both are falsy, and the code only ever tests these fields for truthiness.
NoStr == ""

(***************************************************************************)
(* Grade classifier.  A title is a sequence of words; the table below says *)
(* which lower-cased words each of the three regular expressions matches:  *)
(*   \b<org>[\s\-]?(\d{1,2}(?:\.\d+)?)\b                                   *)
(***************************************************************************)
Lower(w) ==
    CASE w = "PSA 10" -> "psa 10"
      [] w = "BGS 9.5" -> "bgs 9.5"
      [] w = "CGC-8" -> "cgc-8"
      [] w = "Charizard" -> "charizard"
      [] OTHER -> w

\* "charizard" carries no grading company and grade number: it matches none.
PatternMatches(label, w) ==
    CASE label = "PSA" -> w \in {"psa 10", "psa10", "psa-9.5"}
      [] label = "BGS" -> w \in {"bgs 9.5", "bgs9"}
      [] label = "CGC" -> w \in {"cgc-8", "cgc 10"}
      [] OTHER -> FALSE

\* The patterns dict in its insertion order.
patterns == <<"PSA", "BGS", "CGC">>

RECURSIVE FirstMatch(_, _)
FirstMatch(title, i) ==
    IF i > Len(patterns) THEN "raw"
    ELSE IF \E k \in 1..Len(title) : PatternMatches(patterns[i], Lower(title[k]))
         THEN patterns[i]
         ELSE FirstMatch(title, i + 1)

detect_grade_from_title(title) ==
    IF title = <<>> THEN "raw" ELSE FirstMatch(title, 1)

(***************************************************************************)
(* float(item["price"]["value"]): the price strings the marketplace sends, *)
(* in cents.  None and "N/A" raise, and the bare except skips the listing. *)
(***************************************************************************)
FloatParses(v) == v \in {"1.00", "1.01", "2.50", "0.99"}

FloatCents(v) ==
    CASE v = "1.00" -> 100
      [] v = "1.01" -> 101
      [] v = "2.50" -> 250
      [] v = "0.99" -> 99

\* The image of one listing: image.imageUrl, else thumbnailImages[0].imageUrl.
ItemImage(item) ==
    IF item.image # NoStr THEN item.image
    ELSE IF item.thumbnailImages # <<>> THEN item.thumbnailImages[1]
    ELSE NoStr

EmptyGrades == [b \in {"raw", "PSA", "CGC", "BGS"} |-> <<>>]

\* The loop body with the cap tested by <= instead of <.
GatherItemOffByOne(st, item) ==
    IF ~FloatParses(item.price) THEN st
    ELSE LET bucket == detect_grade_from_title(item.title)
             price == FloatCents(item.price)
             grades == IF Len(st.grades[bucket]) <= SEARCH_LIMIT_PER_GRADE
                       THEN [st.grades EXCEPT ![bucket] = Append(@, price)]
                       ELSE st.grades
             img == ItemImage(item)
         IN [grades |-> grades,
             image_url |-> IF st.image_url = NoStr /\ img # NoStr
                           THEN img ELSE st.image_url]

\* One iteration of the for loop of gather_prices_by_grade.
GatherItem(st, item) ==
    IF ~FloatParses(item.price) THEN st
    ELSE LET bucket == detect_grade_from_title(item.title)
             price == FloatCents(item.price)
             grades == IF Len(st.grades[bucket]) < SEARCH_LIMIT_PER_GRADE
                       THEN [st.grades EXCEPT ![bucket] = Append(@, price)]
                       ELSE st.grades
             img == ItemImage(item)
         IN [grades |-> grades,
             image_url |-> IF st.image_url = NoStr /\ img # NoStr
                           THEN img ELSE st.image_url]

RECURSIVE GatherLoop(_, _)
GatherLoop(its, st) ==
    IF its = <<>> THEN st
    ELSE GatherLoop(Tail(its), GatherItem(st, Head(its)))

\* gather_prices_by_grade given what the three providers answer.  calls lists
\* the image-search providers that were queried.
gather_prices_by_grade(its, g, d) ==
    LET st == GatherLoop(its, [grades |-> EmptyGrades, image_url |-> NoStr])
    IN IF st.image_url # NoStr
       THEN [grades |-> st.grades, image_url |-> st.image_url, calls |-> <<>>]
       ELSE IF g # NoStr
       THEN [grades |-> st.grades, image_url |-> g, calls |-> <<"google">>]
       ELSE [grades |-> st.grades, image_url |-> d,
             calls |-> <<"google", "duckduckgo">>]

RECURSIVE Sum(_)
Sum(s) == IF s = <<>> THEN 0 ELSE Head(s) + Sum(Tail(s))

\* A mean that lies halfway between two cents is a double just above or just
\* below the half, and round() follows the double.  Of the halves the price
\* strings above can produce (0.995, 1.005, 1.745, 1.755) only the double
\* nearest 1.745 lies above it.
HalfRoundsUp(n, d) == d = 2 /\ n = 349

\* round(n / d, 2) in cents: the nearest whole cent.
RoundDiv(n, d) ==
    LET q == n \div d
        r == n % d
    IN IF 2 * r < d THEN q
       ELSE IF 2 * r > d THEN q + 1
       ELSE IF HalfRoundsUp(n, d) THEN q + 1 ELSE q

\* avg = {k: round(sum(v)/len(v), 2) if v else 0 ...}
Avg(grades) ==
    [b \in DOMAIN grades |->
        IF grades[b] = <<>> THEN 0 ELSE RoundDiv(Sum(grades[b]), Len(grades[b]))]

\* The payload api_search stores and returns.
Payload(grades) == [avg |-> Avg(grades), prices |-> grades]

\* One listing summary of the marketplace answer.
Listing(t, p, i, th) == [title |-> t, price |-> p, image |-> i, thumbnailImages |-> th]

\* The handler slots: two requests can be in flight at a time.
Reqs == {"r1", "r2"}

(***************************************************************************)
(* Tables.  A row is a record; the primary key id is assigned on insert.   *)
(***************************************************************************)
Usernames == {"ash", "misty"}
Passwords == {"pw1", "pw2"}
Cards == {"Charizard", "Pikachu"}
Regions == {"AU"}
ConfirmUrls == {"u.jpg"}

NextId(rows) == IF rows = {} THEN 1 ELSE 1 + CHOOSE m \in {x.id : x \in rows} :
                                              \A y \in rows : y.id <= m

\* pwd_context.hash: a bcrypt digest of the password, never the password.
get_password_hash(password) == <<"$2b$", password>>

\* fetch_one(users.select().where(users.c.username == username))
SelectUser(rows, username) == {x \in rows : x.username = username}

\* The username column declared without unique=True.
NoUsernameIndex(rows, username) == FALSE

\* users.c.username is unique=True: the insert raises when the name is taken.
UsernameTaken(rows, username) == \E x \in rows : x.username = username

\* The searches table declared without its unique constraint.
NoUserCardConstraint(rows, user_id, card_name) == FALSE

\* UniqueConstraint("user_id", "card_name"): the insert raises on a second row.
UserCardTaken(rows, user_id, card_name) ==
    \E x \in rows : x.user_id = user_id /\ x.card_name = card_name

\* The select with the card_name condition left out.
SelectSearchAnyCard(rows, user_id, card_name) ==
    {x \in rows : x.user_id = user_id}

\* fetch_one(searches.select().where(user_id == .. & card_name == ..))
SelectSearch(rows, user_id, card_name) ==
    {x \in rows : x.user_id = user_id /\ x.card_name = card_name}

\* json.dumps / json.loads of the payload stored in last_result.
json_dumps(payload) == <<"json", payload>>
json_loads(text) == text[2]

\* datetime.isoformat() / datetime.fromisoformat(): date part and time part.
isoformat(t) == <<t \div TicksPerDay, t % TicksPerDay>>
fromisoformat(s) == s[1] * TicksPerDay + s[2]

\* .values(...) of the update and insert in api_search and of the update in
\* api_refresh.
SearchValues(payload, image, now) ==
    [last_result |-> json_dumps(payload), last_image |-> image,
     last_updated |-> now, confirmed |-> FALSE]

\* The update of api_confirm_image with confirmed=True left out.
ConfirmValuesUnconfirmed(image_url, now) ==
    [last_image |-> image_url, last_updated |-> now]

\* .values(...) of the update in api_confirm_image.
ConfirmValues(image_url, now) ==
    [last_image |-> image_url, confirmed |-> TRUE, last_updated |-> now]

\* searches.update().where(searches.c.id == id).values(**values)
UpdateSearch(rows, id, values) ==
    { IF x.id = id
      THEN [f \in DOMAIN x |-> IF f \in DOMAIN values THEN values[f] ELSE x[f]]
      ELSE x : x \in rows }

\* searches.insert().values(user_id=.., card_name=.., region=.., **values);
\* the confirmed column defaults to False.
InsertSearch(rows, user_id, card_name, region, values) ==
    rows \cup {[id |-> NextId(rows), user_id |-> user_id, card_name |-> card_name,
                region |-> region, last_result |-> values.last_result,
                last_image |-> values.last_image,
                last_updated |-> values.last_updated,
                confirmed |-> IF "confirmed" \in DOMAIN values
                              THEN values.confirmed ELSE FALSE]}

(***************************************************************************)
(* Bearer tokens.  jwt.decode raises JWTError on a token that is not a     *)
(* signed JWT and on one whose exp lies in the past.                       *)
(***************************************************************************)
NoToken == [wellformed |-> FALSE, sub |-> NoStr, exp |-> 0]

\* An expiry after the last tick of every specification.
FarExp == MaxClock + (MaxSavedDays + 1) * TicksPerDay

\* The tokens clients send: garbage, a token without sub, one token per
\* username that outlives the behaviour, and one that expires after tick 0.
Tokens ==
    {NoToken} \cup
    [wellformed : {TRUE}, sub : Usernames \cup {NoStr}, exp : {FarExp}] \cup
    [wellformed : {TRUE}, sub : {"ash"}, exp : {0}]

\* jwt.decode with the exp claim not verified.
DecodeIgnoresExpiry(token, now) == ~token.wellformed

\* jwt.decode(token, JWT_SECRET_KEY, algorithms=[JWT_ALGORITHM]) raises.
DecodeRaises(token, now) == ~token.wellformed \/ token.exp < now

\* get_current_user, lines 94-100: the token is refused before any query.
CredentialsRefused(token, now) == DecodeRaises(token, now) \/ token.sub = NoStr

(***************************************************************************)
(* Handler frames.  A frame is what the coroutine holds across an await;   *)
(* a frame at "done" is the response the client received.                  *)
(***************************************************************************)
Frame(pc, op) ==
    [pc |-> pc, op |-> op, token |-> NoToken, card_name |-> NoStr,
     region |-> NoStr, image_url |-> NoStr, username |-> NoStr,
     password |-> NoStr, current_id |-> 0, row_id |-> 0, result |-> <<>>,
     now |-> <<>>, rows |-> {}, status |-> 0, body |-> {}]

Idle == Frame("idle", NoStr)

Respond(f, status) == [Frame("done", f.op) EXCEPT !.status = status]

\* The 401 of get_current_user; the token refused stays with the response.
Unauthorized(f) == [Respond(f, 401) EXCEPT !.token = f.token]

\* A request is taken by a free slot; the slots are interchangeable, so it
\* is taken by r1 when both are free.
Free(r) ==
    /\ req[r].pc \in {"idle", "done"}
    /\ started < MaxStarted
    /\ r = "r2" => req["r1"].pc \notin {"idle", "done"}

UnchangedAgg == UNCHANGED <<items, google, ddg, agg>>

\* What the marketplace and the two image providers answer to one search.
Answers ==
    { <<(<<Listing(<<"Charizard">>, "1.00", "a.jpg", <<>>)>>), NoStr, NoStr>>,
      <<(<<>>), NoStr, "d.jpg">> }

Init ==
    /\ users = {}
    /\ searches = {}
    /\ clock = 0
    /\ started = 0
    /\ req = [r \in Reqs |-> Idle]
    /\ items = <<>>
    /\ google = NoStr
    /\ ddg = NoStr
    /\ agg = <<>>

\* datetime.utcnow() advances between any two steps.
Tick ==
    /\ clock < MaxClock
    /\ clock' = clock + 1
    /\ UNCHANGED <<users, searches, req, started>>
    /\ UnchangedAgg

\* A request arrives and runs to its first await (or to its response).
Arrive(r, frame) ==
    /\ req' = [req EXCEPT ![r] = frame]
    /\ started' = started + 1
    /\ UNCHANGED <<users, searches, clock>>
    /\ UnchangedAgg

\* RateLimiter(times, seconds) on /register, /api/search, /api/refresh and
\* /api/confirm_image: over quota, the request ends before the handler runs.
RateLimited(r) ==
    /\ Free(r)
    /\ \E op \in {"register", "search", "refresh", "confirm_image"} :
          Arrive(r, Respond(Frame("idle", op), 429))

(***************************************************************************)
(* POST /register                                                          *)
(***************************************************************************)
\* existing = await fetch_one(...); if existing: raise HTTPException(400)
StartRegister(r, passwords) ==
    /\ Free(r)
    /\ \E u \in Usernames, p \in passwords :
          LET f == [Frame("insert_user", "register") EXCEPT
                       !.username = u, !.password = p]
          IN Arrive(r, IF SelectUser(users, u) # {} THEN Respond(f, 400) ELSE f)

\* await database.execute(users.insert()...); the unique index on username
\* makes a second insert raise, which reaches the client as a 500.
RegisterInsert(r) ==
    /\ req[r].pc = "insert_user"
    /\ IF UsernameTaken(users, req[r].username)
       THEN /\ req' = [req EXCEPT ![r] = Respond(req[r], 500)]
            /\ users' = users
       ELSE /\ users' = users \cup
                  {[id |-> NextId(users), username |-> req[r].username,
                    password_hash |-> get_password_hash(req[r].password)]}
            /\ req' = [req EXCEPT ![r] = Respond(req[r], 302)]
    /\ UNCHANGED <<searches, clock, started>>
    /\ UnchangedAgg

(***************************************************************************)
(* The protected routes: /api/search, /api/refresh, /api/confirm_image and *)
(* /api/saved.  Each starts with get_current_user(token).                  *)
(***************************************************************************)
\* get_current_user, lines 94-100, on the frame of a request that arrives.
Decoded(f) == IF CredentialsRefused(f.token, clock) THEN Unauthorized(f) ELSE f

StartSearch(r) ==
    /\ Free(r)
    /\ \E t \in Tokens, c \in Cards, rg \in Regions :
          Arrive(r, Decoded([Frame("user", "search") EXCEPT
                                !.token = t, !.card_name = c, !.region = rg]))

StartRefresh(r) ==
    /\ Free(r)
    /\ \E t \in Tokens, c \in Cards :
          Arrive(r, Decoded([Frame("user", "refresh") EXCEPT
                                !.token = t, !.card_name = c]))

StartConfirm(r) ==
    /\ Free(r)
    /\ \E t \in Tokens, c \in Cards, u \in ConfirmUrls :
          Arrive(r, Decoded([Frame("user", "confirm_image") EXCEPT
                                !.token = t, !.card_name = c, !.image_url = u]))

StartSaved(r) ==
    /\ Free(r)
    /\ \E t \in Tokens :
          Arrive(r, Decoded([Frame("user", "saved") EXCEPT !.token = t]))

\* get_current_user, lines 101-105: the user row of the token's subject.
FetchUser(r) ==
    /\ req[r].pc = "user"
    /\ LET found == SelectUser(users, req[r].token.sub)
       IN req' = [req EXCEPT ![r] =
                 IF found = {}
                 THEN Unauthorized(req[r])
                 ELSE [req[r] EXCEPT
                         !.current_id = (CHOOSE x \in found : TRUE).id,
                         !.token = NoToken,
                         !.pc = CASE req[r].op = "search" -> "gather"
                                  [] req[r].op = "saved" -> "fetch_all"
                                  [] OTHER -> "lookup"]]
    /\ UNCHANGED <<users, searches, clock, started>>
    /\ UnchangedAgg

\* gather_prices_by_grade, avg, payload and now = utcnow().isoformat() of
\* api_search (lines 247-250) and api_refresh (lines 265-267).
Gather(r) ==
    /\ req[r].pc = "gather"
    /\ \E a \in Answers :
          LET out == gather_prices_by_grade(a[1], a[2], a[3])
          IN req' = [req EXCEPT ![r] = [req[r] EXCEPT
                        !.result = <<Payload(out.grades)>>,
                        !.image_url = out.image_url,
                        !.now = isoformat(clock),
                        !.pc = IF req[r].op = "search" THEN "lookup" ELSE "write"]]
    /\ UNCHANGED <<users, searches, clock, started>>
    /\ UnchangedAgg

\* The fetch_one of the (user, card) row: line 251, 261 or 274.
Lookup(r) ==
    /\ req[r].pc = "lookup"
    /\ LET found == SelectSearch(searches, req[r].current_id, req[r].card_name)
           row == CHOOSE x \in found : TRUE
       IN req' = [req EXCEPT ![r] =
                 IF found = {}
                 THEN IF req[r].op = "search"
                      THEN [req[r] EXCEPT !.pc = "write"]
                      ELSE Respond(req[r], 404)
                 ELSE [req[r] EXCEPT
                         !.row_id = row.id,
                         !.region = IF req[r].op = "refresh" THEN row.region ELSE @,
                         !.pc = CASE req[r].op = "search" -> "write"
                                  [] req[r].op = "refresh" -> "gather"
                                  [] OTHER -> "now"]]
    /\ UNCHANGED <<users, searches, clock, started>>
    /\ UnchangedAgg

\* now = datetime.utcnow().isoformat() of api_confirm_image (line 277).
ReadNow(r) ==
    /\ req[r].pc = "now"
    /\ req' = [req EXCEPT ![r] = [req[r] EXCEPT !.now = isoformat(clock),
                                                 !.pc = "write"]]
    /\ UNCHANGED <<users, searches, clock, started>>
    /\ UnchangedAgg

\* api_search, lines 252-256: update the row found, or insert a new one; the
\* unique constraint makes a second insert raise, which reaches the client
\* as a 500.
SearchWrite(r) ==
    /\ req[r].pc = "write" /\ req[r].op = "search"
    /\ LET f == req[r]
           values == SearchValues(f.result[1], f.image_url, f.now)
       IN IF f.row_id # 0
          THEN /\ searches' = UpdateSearch(searches, f.row_id, values)
               /\ req' = [req EXCEPT ![r] = Respond(f, 200)]
          ELSE IF UserCardTaken(searches, f.current_id, f.card_name)
          THEN /\ searches' = searches
               /\ req' = [req EXCEPT ![r] = Respond(f, 500)]
          ELSE /\ searches' = InsertSearch(searches, f.current_id, f.card_name,
                                           f.region, values)
               /\ req' = [req EXCEPT ![r] = Respond(f, 200)]
    /\ UNCHANGED <<users, clock, started>>
    /\ UnchangedAgg

\* api_refresh, lines 268-269.
RefreshWrite(r) ==
    /\ req[r].pc = "write" /\ req[r].op = "refresh"
    /\ LET f == req[r]
       IN searches' = UpdateSearch(searches, f.row_id,
                                   SearchValues(f.result[1], f.image_url, f.now))
    /\ req' = [req EXCEPT ![r] = Respond(req[r], 200)]
    /\ UNCHANGED <<users, clock, started>>
    /\ UnchangedAgg

\* api_confirm_image, lines 278-279.
ConfirmWrite(r) ==
    /\ req[r].pc = "write" /\ req[r].op = "confirm_image"
    /\ LET f == req[r]
       IN searches' = UpdateSearch(searches, f.row_id,
                                   ConfirmValues(f.image_url, f.now))
    /\ req' = [req EXCEPT ![r] = Respond(req[r], 200)]
    /\ UNCHANGED <<users, clock, started>>
    /\ UnchangedAgg

\* The staleness test with >= instead of >.
ExpiredInclusive(last_updated, now) ==
    \/ last_updated = <<>>
    \/ now - fromisoformat(last_updated) >= SAVED_SEARCH_EXPIRY_DAYS * TicksPerDay

\* expired of api_saved, line 289, with the elapsed time in ticks.
Expired(last_updated, now) ==
    \/ last_updated = <<>>
    \/ now - fromisoformat(last_updated) > SAVED_SEARCH_EXPIRY_DAYS * TicksPerDay

\* One element of the list api_saved returns, line 290.
SavedEntry(row, now) ==
    [card_name |-> row.card_name, region |-> row.region,
     last_result |-> IF row.last_result = <<>> THEN <<>>
                     ELSE json_loads(row.last_result),
     last_image |-> row.last_image, last_updated |-> row.last_updated,
     confirmed |-> row.confirmed, expired |-> Expired(row.last_updated, now)]

\* rows = await database.fetch_all(...), line 284.
FetchAll(r) ==
    /\ req[r].pc = "fetch_all"
    /\ req' = [req EXCEPT ![r] = [req[r] EXCEPT
                  !.rows = {x \in searches : x.user_id = req[r].current_id},
                  !.pc = "respond"]]
    /\ UNCHANGED <<users, searches, clock, started>>
    /\ UnchangedAgg

\* The loop of api_saved, lines 285-291, with utcnow() read now.
SavedRespond(r) ==
    /\ req[r].pc = "respond"
    /\ req' = [req EXCEPT ![r] = [Respond(req[r], 200) EXCEPT
                  !.body = {SavedEntry(x, clock) : x \in req[r].rows}]]
    /\ UNCHANGED <<users, searches, clock, started>>
    /\ UnchangedAgg

Next ==
    \/ Tick
    \/ \E r \in Reqs :
          \/ RateLimited(r)
          \/ StartRegister(r, {"pw1"}) \/ RegisterInsert(r)
          \/ StartSearch(r) \/ StartRefresh(r) \/ StartConfirm(r) \/ StartSaved(r)
          \/ FetchUser(r) \/ Gather(r) \/ Lookup(r) \/ ReadNow(r)
          \/ SearchWrite(r) \/ RefreshWrite(r) \/ ConfirmWrite(r)
          \/ FetchAll(r) \/ SavedRespond(r)

Spec == Init /\ [][Next]_vars

(***************************************************************************)
(* SpecRegister: POST /register alone, with every password.                *)
(***************************************************************************)
NextRegister ==
    \E r \in Reqs : StartRegister(r, Passwords) \/ RegisterInsert(r)

SpecRegister == Init /\ [][NextRegister]_vars

(***************************************************************************)
(* SpecSaved: GET /api/saved at any tick of the first MaxSavedDays days,   *)
(* on a store that holds one record of ash's.  last_updated is a nullable  *)
(* column: the record carries a timestamp of the past or none.             *)
(***************************************************************************)
SavedTicks == 0..(MaxSavedDays * TicksPerDay)

SavedRecord(last_updated) ==
    LET out == gather_prices_by_grade(<<>>, NoStr, "d.jpg")
    IN [id |-> 1, user_id |-> 1, card_name |-> "Charizard", region |-> "AU",
        last_result |-> json_dumps(Payload(out.grades)),
        last_image |-> out.image_url, last_updated |-> last_updated,
        confirmed |-> FALSE]

InitSaved ==
    /\ clock \in SavedTicks
    /\ users = {[id |-> 1, username |-> "ash",
                 password_hash |-> get_password_hash("pw1")]}
    /\ \E lu \in {<<>>} \cup {isoformat(t) : t \in 0..clock} :
          searches = {SavedRecord(lu)}
    /\ started = 0
    /\ req = [r \in Reqs |-> Idle]
    /\ items = <<>>
    /\ google = NoStr
    /\ ddg = NoStr
    /\ agg = <<>>

NextSaved ==
    \/ StartSaved("r1")
    \/ FetchUser("r1")
    \/ FetchAll("r1")
    \/ SavedRespond("r1")

SpecSaved == InitSaved /\ [][NextSaved]_vars

(***************************************************************************)
(* SpecAgg: the aggregator as api_search calls it (lines 247-249), on      *)
(* every marketplace answer of at most MaxItems listings.                  *)
(***************************************************************************)
Listings ==
    { Listing(<<"Charizard">>, "1.00", "a.jpg", <<>>),
      Listing(<<"Charizard">>, "1.01", NoStr, <<"t.jpg">>),
      Listing(<<"Charizard">>, "2.50", NoStr, <<>>),
      Listing(<<"Charizard">>, "N/A", "b.jpg", <<>>),
      Listing(<<"Charizard", "PSA 10">>, "0.99", NoStr, <<>>),
      Listing(<<"CGC-8", "PSA 10">>, "1.00", NoStr, <<NoStr>>),
      Listing(<<"BGS 9.5">>, "2.50", "c.jpg", <<>>),
      Listing(<<"CGC-8">>, "1.01", NoStr, <<>>),
      Listing(<<>>, "0.99", NoStr, <<>>) }

\* What an image provider answers; duckduckgo_image is only called when
\* google_image_search returned nothing.
ImageAnswers(url) == {NoStr, url}

InitAgg ==
    /\ items \in UNION {[1..n -> Listings] : n \in 0..MaxItems}
    /\ google \in ImageAnswers("g.jpg")
    /\ ddg \in IF google = NoStr THEN ImageAnswers("d.jpg") ELSE {NoStr}
    /\ agg = <<>>
    /\ users = {}
    /\ searches = {}
    /\ clock = 0
    /\ started = 0
    /\ req = [r \in Reqs |-> Idle]

\* grades, image_url = gather_prices_by_grade(...); avg = ...; payload = ...
Aggregate ==
    /\ agg = <<>>
    /\ LET out == gather_prices_by_grade(items, google, ddg)
       IN agg' = << [payload |-> Payload(out.grades),
                     image_url |-> out.image_url,
                     calls |-> out.calls] >>
    /\ UNCHANGED <<users, searches, clock, req, started, items, google, ddg>>

NextAgg == Aggregate

SpecAgg == InitAgg /\ [][NextAgg]_vars

(***************************************************************************)
(* Properties.                                                             *)
(***************************************************************************)
Protected == {"search", "refresh", "confirm_image", "saved"}

\* The slot r takes a request in this step.
Arrives(r) == started' = started + 1 /\ Free(r)

\* The rows of rows that belong to (user_id, card_name).
RecordsOf(rows, user_id, card_name) ==
    {x \in rows : x.user_id = user_id /\ x.card_name = card_name}

\* C1: in every reachable state the searches table holds at most one row for
\* each (user, card name) pair, whatever Search, Refresh and Confirm-image
\* requests were interleaved.
C1_OneRecordPerUserCard ==
    \A x \in searches, y \in searches :
       (x.user_id = y.user_id /\ x.card_name = y.card_name) => x = y

\* A Search that looked up before another request's insert has tried to add a
\* second row for its pair and was refused.
C1_Witness ==
    \E r \in Reqs : req[r].op = "search" /\ req[r].status = 500 /\ searches # {}

C3_LastUpdatedNeverDecreases ==
    [][ \A x \in searches, y \in searches' :
           y.id = x.id =>
              fromisoformat(y.last_updated) >= fromisoformat(x.last_updated) ]_vars

\* C4: a Refresh or Confirm-image whose lookup finds no record of its (user,
\* card name) pair ends with 404 and changes neither table.
C4_NotFoundChangesNothing ==
    [][ \A r \in Reqs :
           ( /\ req[r].pc = "lookup"
             /\ req[r].op \in {"refresh", "confirm_image"}
             /\ req'[r] # req[r]
             /\ RecordsOf(searches, req[r].current_id, req[r].card_name) = {} )
           => /\ req'[r].pc = "done"
              /\ req'[r].status = 404
              /\ searches' = searches
              /\ users' = users ]_vars

\* A Refresh or Confirm-image was answered 404 and the store holds a record.
C4_Witness ==
    /\ \E r \in Reqs :
          req[r].op \in {"refresh", "confirm_image"} /\ req[r].status = 404
    /\ searches # {}

\* C5: a Search, Refresh, Confirm-image or List-saved request that the rate
\* limiter lets through and whose token is malformed, expired, without
\* subject or names no registered user is answered 401, whichever route and
\* card it asks for, and changes neither table.
C5_BadTokenIs401 ==
    [][ /\ \A r \in Reqs :
             ( /\ Arrives(r)
               /\ req'[r].op \in Protected
               /\ req'[r].status # 429
               /\ \/ ~req'[r].token.wellformed
                  \/ req'[r].token.exp < clock
                  \/ req'[r].token.sub = NoStr )
             => /\ req'[r].pc = "done"
                /\ req'[r].status = 401
                /\ searches' = searches
                /\ users' = users
        /\ \A r \in Reqs :
             ( /\ req[r].pc = "user"
               /\ req'[r] # req[r]
               /\ \A u \in users : u.username # req[r].token.sub )
             => /\ req'[r].pc = "done"
                /\ req'[r].status = 401
                /\ searches' = searches
                /\ users' = users ]_vars

\* A signed token that has expired or names no registered user was answered
\* 401 while the store holds a record.
C5_Witness ==
    /\ searches # {}
    /\ \E r \in Reqs :
          /\ req[r].op \in Protected
          /\ req[r].status = 401
          /\ req[r].token.wellformed
          /\ req[r].token.sub # NoStr

\* C6: a Register for a username that is taken ends with an error (400 from
\* the handler's check, 500 from the unique index, 429 from the limiter) and
\* adds no row; no row of users is ever changed or removed, and no two rows
\* share a username.
C6_DuplicateUsernameRefused ==
    [][ /\ \A x \in users : x \in users'
        /\ \A x \in users', y \in users' : x.username = y.username => x = y
        /\ \A r \in Reqs :
             (Arrives(r) /\ req'[r].op = "register")
             => /\ users' = users
                /\ \/ req'[r].pc = "done" /\ req'[r].status \in {400, 429}
                   \/ /\ req'[r].pc = "insert_user"
                      /\ \A x \in users : x.username # req'[r].username
        /\ \A r \in Reqs :
             ( /\ req[r].pc = "insert_user"
               /\ req'[r] # req[r]
               /\ \E x \in users : x.username = req[r].username )
             => /\ req'[r].pc = "done"
                /\ req'[r].status = 500
                /\ users' = users ]_vars

\* Two Registers for one username with different passwords ran together:
\* the second insert was refused and the first registrant's row stands.
C6_Witness ==
    /\ \E r \in Reqs : req[r].op = "register" /\ req[r].status = 500
    /\ \E r \in Reqs : req[r].op = "register" /\ req[r].status = 302
    /\ Cardinality(users) = 1

\* The prices of the listings of its that parse and fall into bucket b.
RECURSIVE BucketPrices(_, _)
BucketPrices(its, b) ==
    IF its = <<>> THEN <<>>
    ELSE LET h == Head(its)
             rest == BucketPrices(Tail(its), b)
         IN IF h.price \in {"1.00", "1.01", "2.50", "0.99"}
               /\ detect_grade_from_title(h.title) = b
            THEN <<FloatCents(h.price)>> \o rest
            ELSE rest

FirstUpTo(s, n) == SubSeq(s, 1, IF Len(s) < n THEN Len(s) ELSE n)

BucketsAreFirstThree ==
    \A b \in {"raw", "PSA", "CGC", "BGS"} :
       agg[1].payload.prices[b] = FirstUpTo(BucketPrices(items, b), 3)

\* C7 as stated: each bucket holds the first up-to-3 parsable prices of its
\* listings in encounter order, and the reported average is exactly the
\* arithmetic mean of that list (0 when it is empty).
C7_AverageIsExactMean ==
    agg # <<>> =>
       /\ BucketsAreFirstThree
       /\ \A b \in {"raw", "PSA", "CGC", "BGS"} :
             LET prices == agg[1].payload.prices[b]
                 avg == agg[1].payload.avg[b]
             IN IF prices = <<>> THEN avg = 0
                ELSE avg * Len(prices) = Sum(prices)

\* C7 amended: each bucket holds the first up-to-3 parsable prices of its
\* listings in encounter order, and the reported average is the arithmetic
\* mean of that list rounded to 2 decimal places, that is a whole number of
\* cents at most half a cent from the mean (0 when the list is empty).
C7_AverageIsRoundedMean ==
    agg # <<>> =>
       /\ BucketsAreFirstThree
       /\ \A b \in {"raw", "PSA", "CGC", "BGS"} :
             LET prices == agg[1].payload.prices[b]
                 avg == agg[1].payload.avg[b]
                 diff == avg * Len(prices) - Sum(prices)
             IN IF prices = <<>> THEN avg = 0
                ELSE 2 * diff <= Len(prices) /\ -2 * diff <= Len(prices)

\* A bucket was offered more than three parsable prices and the mean of the
\* three it kept is no whole number of cents.
C7_Witness ==
    /\ agg # <<>>
    /\ \E b \in {"raw", "PSA", "CGC", "BGS"} :
          /\ Len(BucketPrices(items, b)) > 3
          /\ Sum(agg[1].payload.prices[b]) % 3 # 0

\* The ticks from last_updated to now.
Elapsed(last_updated, now) ==
    now - (last_updated[1] * TicksPerDay + last_updated[2])

\* C8 as stated: List-saved reports expired exactly when last_updated is
\* absent or at least 7 days have passed since: 7 days exactly is expired.
C8_ExpiredAtSevenDays ==
    \A r \in Reqs :
       (req[r].op = "saved" /\ req[r].status = 200) =>
          \A e \in req[r].body :
             e.expired <=> \/ e.last_updated = <<>>
                           \/ Elapsed(e.last_updated, clock) >= 7 * TicksPerDay

\* C8 amended: List-saved reports expired exactly when last_updated is absent
\* or more than 7 days have passed since: a record updated 8 days ago is
\* expired, one updated 1 day ago or exactly 7 days ago is not.
C8_ExpiredAfterSevenDays ==
    \A r \in Reqs :
       (req[r].op = "saved" /\ req[r].status = 200) =>
          /\ req[r].body # {}
          /\ \A e \in req[r].body :
                e.expired <=> \/ e.last_updated = <<>>
                              \/ Elapsed(e.last_updated, clock) > 7 * TicksPerDay

\* List-saved answered for a record updated exactly 7 days before.
C8_Witness ==
    \E r \in Reqs :
       /\ req[r].op = "saved" /\ req[r].status = 200
       /\ \E e \in req[r].body :
             /\ e.last_updated # <<>>
             /\ Elapsed(e.last_updated, clock) = 7 * TicksPerDay
             /\ ~e.expired

\* C9: a listing whose price does not parse adds no price to any bucket and
\* can still supply the image: when no listing before it has an image and it
\* has one, the resolved image is its image and no image search is made.
C9_UnparsableListingSuppliesImage ==
    agg # <<>> =>
       \A i \in 1..Len(items) :
          ( /\ items[i].price \notin {"1.00", "1.01", "2.50", "0.99"}
            /\ ItemImage(items[i]) # NoStr
            /\ \A j \in 1..(i - 1) : ItemImage(items[j]) = NoStr )
          => /\ agg[1].image_url = ItemImage(items[i])
             /\ agg[1].calls = <<>>
             /\ BucketsAreFirstThree

\* C10: each of two Search requests of one user for one card that run
\* together, whatever the order of their lookups and writes, is answered 200
\* by its write, which leaves exactly one record of the pair, holding the
\* result, image and timestamp it wrote and confirmed = FALSE.
C10_ConcurrentSearchesBothSucceed ==
    [][ \A r \in Reqs :
           (req[r].pc = "write" /\ req[r].op = "search" /\ req'[r] # req[r])
           => /\ req'[r].status = 200
              /\ \E x \in searches' :
                    /\ RecordsOf(searches', req[r].current_id, req[r].card_name) = {x}
                    /\ x.last_result = <<"json", req[r].result[1]>>
                    /\ x.last_image = req[r].image_url
                    /\ x.last_updated = req[r].now
                    /\ x.confirmed = FALSE ]_vars

====
